---- MODULE Spec2Model ----
(***************************************************************************)
(* A model of the foodgram backend (Django + Django REST Framework):       *)
(* the tables Subscription, Recipe (with its tags and RecipeIngredient     *)
(* rows), Favorites and ShoppingList, and the API handlers of              *)
(* backend/api/views.py that read and write them.                          *)
(*                                                                         *)
(* Requests are served concurrently and nothing in the code runs a handler *)
(* in a transaction, so every database query is one step.  A handler that  *)
(* reads a table and then writes it (subscribe, favorite_recipe,           *)
(* shopping_cart) is two steps: the step of its read, which answers at     *)
(* once when the read already decides the response, and otherwise leaves   *)
(* the request in flight, and the step of its write.  Recipe create,       *)
(* update and destroy and the read-only handlers are one step each.        *)
(***************************************************************************)
EXTENDS Integers, FiniteSets, Sequences, Bags, TLC

\* ------------------------------------------------------------ bounds
\* Requests that may be between their read and their write at one time.
MaxInFlight == 2
\* Primary keys the ShoppingList table may hold (ids 1..MaxRows).
MaxRows == 2

\* ------------------------------------------------------------ data
\* The registered users (users.CustomUser rows) and the anonymous requester.
Users == {"u1", "u2"}
Anon == "anon"
Requesters == Users \cup {Anon}

VARIABLES
  subscriptions,   \* Subscription rows: pairs <<subscriber, subscribing>>
  recipes,         \* Recipe table: recipe id -> the recipe, or NoRecipe
  favorites,       \* Favorites rows: pairs <<user, recipe id>>
  shopping_list,   \* ShoppingList rows: records [id, user, recipe]
  flight,          \* bag of requests between their read and their write
  resp             \* the response the last step sent (NoResponse: none)

vars == <<subscriptions, recipes, favorites, shopping_list, flight, resp>>

NoResponse == [op |-> "none"]

\* rest_framework.permissions.IsAuthenticated
IsAuthenticated(q) == q \in Users

\* ------------------------------------------------------------ users
\* CustomUserSerializer.get_is_subscribed(self, user): `user` is the user
\* being serialized, a CustomUser row, whose is_authenticated is always
\* True; user.subscriptions are the rows whose subscriber is that user.
get_is_subscribed(user) ==
  LET user_subscriptions == {s \in subscriptions : s[1] = user}
  IN  \E s \in user_subscriptions : s[1] = user

\* SubscriptionCreated with a fault seeded: the table enforces no uniqueness
SubscriptionCreatedAlways(subscriber, subscribing) == TRUE

\* Subscription.Meta.unique_together = ('subscriber', 'subscribing'): the
\* insert of get_or_create creates the row unless the table holds it.
SubscriptionCreated(subscriber, subscribing) ==
  <<subscriber, subscribing>> \notin subscriptions

\* Subscription(subscriber=user, subscribing=author), the row the insert adds
SubscriptionInsert(user, author) ==
  subscriptions \cup {<<user, author>>}

\* SelfSubscription with a fault seeded: the check is missing
SelfSubscriptionUnchecked(user, author) == FALSE

\* `if user == author` of subscribe
SelfSubscription(user, author) == user = author

\* SubscriptionDelete with a fault seeded: the filter matches the pair in both directions
SubscriptionDeleteBothWays(user, author) ==
  subscriptions \ {<<user, author>>, <<author, user>>}

\* Subscription.objects.filter(subscriber=user, subscribing=author).delete()
SubscriptionDelete(user, author) ==
  subscriptions \ {<<user, author>>}

Pending(op, method, user, target) ==
  [op |-> op, method |-> method, user |-> user, target |-> target]

CanStart == BagCardinality(flight) < MaxInFlight

\* CustomUserViewSet.subscribe, up to its first query on Subscription.
subscribe(q, method, author) ==
  /\ UNCHANGED <<recipes, favorites, shopping_list>>
  /\ IF ~IsAuthenticated(q)
     THEN /\ resp' = [op |-> "subscribe", method |-> method, user |-> q,
                      target |-> author, status |-> 401]
          /\ UNCHANGED <<subscriptions, flight>>
     ELSE IF method = "POST" /\ SelfSubscription(q, author)
     THEN /\ resp' = [op |-> "subscribe", method |-> method, user |-> q,
                      target |-> author, status |-> 400]
          /\ UNCHANGED <<subscriptions, flight>>
     ELSE IF method = "POST" /\ <<q, author>> \in subscriptions
     THEN \* get_or_create: the row is found, created is False
          /\ resp' = [op |-> "subscribe", method |-> method, user |-> q,
                      target |-> author, status |-> 400]
          /\ UNCHANGED <<subscriptions, flight>>
     ELSE IF method = "DELETE" /\ <<q, author>> \notin subscriptions
     THEN /\ resp' = [op |-> "subscribe", method |-> method, user |-> q,
                      target |-> author, status |-> 400]
          /\ UNCHANGED <<subscriptions, flight>>
     ELSE /\ CanStart
          /\ flight' = flight (+) SetToBag({Pending("subscribe", method, q, author)})
          /\ resp' = NoResponse
          /\ UNCHANGED subscriptions

\* The second step of subscribe: the insert of get_or_create (POST), which
\* the unique constraint turns into a plain get when the row exists by now,
\* or the filter(...).delete() (DELETE).
subscribe_write(p) ==
  /\ BagIn(p, flight) /\ p.op = "subscribe"
  /\ flight' = flight (-) SetToBag({p})
  /\ UNCHANGED <<recipes, favorites, shopping_list>>
  /\ IF p.method = "POST"
     THEN IF SubscriptionCreated(p.user, p.target)
          THEN /\ subscriptions' = SubscriptionInsert(p.user, p.target)
               /\ resp' = [op |-> "subscribe", method |-> "POST", user |-> p.user,
                           target |-> p.target, status |-> 201,
                           is_subscribed |-> get_is_subscribed(p.target)']
          ELSE /\ UNCHANGED subscriptions
               /\ resp' = [op |-> "subscribe", method |-> "POST", user |-> p.user,
                           target |-> p.target, status |-> 400]
     ELSE /\ subscriptions' = SubscriptionDelete(p.user, p.target)
          /\ resp' = [op |-> "subscribe", method |-> "DELETE", user |-> p.user,
                      target |-> p.target, status |-> 204]

\* CustomUserViewSet.subscriptions of an authenticated q: the users q follows, each serialized by
\* UserRecipeSerializer (is_subscribed from get_is_subscribed).
subscriptions_list(q) ==
  /\ IsAuthenticated(q)
  /\ resp' = [op |-> "subscriptions", user |-> q, status |-> 200,
              results |-> {[id |-> x, is_subscribed |-> get_is_subscribed(x)] :
                             x \in {y \in Users : <<q, y>> \in subscriptions}}]
  /\ UNCHANGED <<subscriptions, recipes, favorites, shopping_list, flight>>

\* ------------------------------------------------------------ recipes
RecipeIds == {1, 2}
NoRecipe == [exists |-> FALSE]

\* serializers.MIN_VALUE, serializers.MAX_VALUE
MIN_VALUE == 1
MAX_VALUE == 32000

\* The Ingredient table: three rows; rows 1 and 3 carry the same name and
\* measurement unit (the model declares no uniqueness), row 2 the same name
\* in another unit.
IngredientIds == {1, 2, 3}
IngredientName(i) == "salt"
IngredientUnit(i) == IF i = 2 THEN "kg" ELSE "g"

Item(i, a) == [id |-> i, amount |-> a]

\* Request bodies.  A body is a dict: a key it lacks is a field the request
\* left out.  `name` stands for the plain required fields name, text and
\* image; `author` is a value a client may send for the read-only field.
Body(tags, ingredients, cooking_time) ==
  [tags |-> tags, ingredients |-> ingredients,
   cooking_time |-> cooking_time, name |-> "name"]

BodyA == Body(<<1>>, <<Item(1, 1)>>, 1)
BodyB == Body(<<2, 1>>, <<Item(3, 2), Item(2, 32000)>>, 32000)

Bodies ==
  { BodyA, BodyB,
    [BodyA EXCEPT !.tags = <<>>],
    [BodyA EXCEPT !.tags = <<1, 1>>],
    [BodyA EXCEPT !.ingredients = <<>>],
    [BodyA EXCEPT !.ingredients = <<Item(1, 1), Item(1, 2)>>],
    [BodyA EXCEPT !.ingredients = <<Item(1, 0)>>],
    [BodyA EXCEPT !.ingredients = <<Item(1, 32001)>>],
    [BodyA EXCEPT !.ingredients = <<[id |-> 1]>>],
    [BodyA EXCEPT !.cooking_time = 0],
    [BodyA EXCEPT !.cooking_time = 32001],
    [ingredients |-> BodyB.ingredients, cooking_time |-> 1, name |-> "name"],
    [tags |-> BodyB.tags, cooking_time |-> 1, name |-> "name"],
    [tags |-> BodyB.tags, ingredients |-> BodyB.ingredients, name |-> "name"],
    [tags |-> BodyA.tags, ingredients |-> BodyA.ingredients, cooking_time |-> 1],
    [tags |-> BodyB.tags, ingredients |-> <<[id |-> 3]>>,
     cooking_time |-> 1, name |-> "name"],
    [tags |-> BodyB.tags, ingredients |-> BodyB.ingredients,
     cooking_time |-> 1, name |-> "name", author |-> "u1"] }

Has(data, key) == key \in DOMAIN data

\* validators=[MinValueValidator(MIN_VALUE), MaxValueValidator(MAX_VALUE)]
InRange(n) == MIN_VALUE <= n /\ n <= MAX_VALUE

\* The field validation of RecipeWriteSerializer, which runs before
\* validate(): a field the body lacks is an error unless the update is
\* partial (PATCH), an amount or cooking_time it gives must be in range.
FieldsValid(data, partial) ==
  /\ \A k \in {"tags", "ingredients", "cooking_time", "name"} :
       Has(data, k) \/ partial
  /\ Has(data, "cooking_time") => InRange(data.cooking_time)
  /\ Has(data, "ingredients") =>
       \A n \in 1..Len(data.ingredients) :
         LET item == data.ingredients[n]
         IN  /\ Has(item, "amount") \/ partial
             /\ Has(item, "amount") => InRange(item.amount)

\* validation.validate_tags: TRUE when it raises no ValidationError.
validate_tags(tags) ==
  /\ tags # <<>>
  /\ \A m, n \in 1..Len(tags) : m # n => tags[m] # tags[n]

\* validate_ingredients with a fault seeded: the repeated-ingredient check is missing
validate_ingredients_repeats(ingredients) ==
  /\ ingredients # <<>>
  /\ \A n \in 1..Len(ingredients) :
       /\ Has(ingredients[n], "amount")
       /\ ~(ingredients[n].amount < 1)

\* validation.validate_ingredients: TRUE when it raises no ValidationError.
validate_ingredients(ingredients) ==
  /\ ingredients # <<>>
  /\ \A m, n \in 1..Len(ingredients) :
       m # n => ingredients[m].id # ingredients[n].id
  /\ \A n \in 1..Len(ingredients) :
       /\ Has(ingredients[n], "amount")
       /\ ~(ingredients[n].amount < 1)

\* RecipeWriteSerializer.validate: data.get('tags', []), data.get('ingredients', [])
validate(data) ==
  /\ validate_tags(IF Has(data, "tags") THEN data.tags ELSE <<>>)
  /\ validate_ingredients(IF Has(data, "ingredients") THEN data.ingredients ELSE <<>>)

\* serializer.is_valid()
is_valid(data, partial) == FieldsValid(data, partial) /\ validate(data)

\* RecipeWriteSerializer.add_ingredients: one RecipeIngredient row an item.
add_ingredients(ingredients) ==
  [n \in 1..Len(ingredients) |->
     [ingredient |-> ingredients[n].id, amount |-> ingredients[n].amount]]

\* recipe.tags.set(tags)
TagSet(tags) == {tags[n] : n \in 1..Len(tags)}

\* IsAuthenticatedOrReadOnly with a fault seeded: AllowAny
AllowAnyMethod(q, method) == TRUE

\* rest_framework.permissions.IsAuthenticatedOrReadOnly
IsAuthenticatedOrReadOnly(q, method) ==
  method \in {"GET", "HEAD", "OPTIONS"} \/ IsAuthenticated(q)

\* IsRecipeAuthorOrReadOnly with a fault seeded: the author is not compared
AnyUserOrReadOnly(q, method, obj) == TRUE

\* IsRecipeAuthorOrReadOnly.has_object_permission
IsRecipeAuthorOrReadOnly(q, method, obj) ==
  method \in {"GET", "HEAD", "OPTIONS"} \/ obj.author = q

\* Primary keys are only compared for equality, so the model gives a new
\* recipe the least key that no stored row and no request in flight holds.
HeldRecipes == {p.target : p \in {x \in BagToSet(flight) : x.op # "subscribe"}}
FreeRecipeIds == {r \in RecipeIds : ~recipes[r].exists /\ r \notin HeldRecipes}

RecipeResp(method, q, pk, status) ==
  [op |-> "recipe", method |-> method, user |-> q, recipe |-> pk, status |-> status]

\* The response to a create or an update, with the body the request sent.
WriteResp(method, q, pk, status, data) ==
  [op |-> "recipe", method |-> method, user |-> q, recipe |-> pk,
   status |-> status, data |-> data]

\* RecipeViewSet.create: perform_create saves with author=request.user;
\* RecipeWriteSerializer.create stores the fields, the tags and the rows.
recipe_create(q, data) ==
  /\ UNCHANGED <<subscriptions, favorites, shopping_list, flight>>
  /\ IF ~IsAuthenticatedOrReadOnly(q, "POST")
     THEN resp' = WriteResp("POST", q, 0, 401, data) /\ UNCHANGED recipes
     ELSE IF ~is_valid(data, FALSE)
     THEN resp' = WriteResp("POST", q, 0, 400, data) /\ UNCHANGED recipes
     ELSE /\ FreeRecipeIds # {}
          /\ LET pk == CHOOSE r \in FreeRecipeIds : \A o \in FreeRecipeIds : r <= o
             IN  /\ recipes' = [recipes EXCEPT ![pk] =
                       [exists |-> TRUE, author |-> q,
                        tags |-> TagSet(data.tags),
                        ingredients |-> add_ingredients(data.ingredients),
                        cooking_time |-> data.cooking_time]]
                 /\ resp' = WriteResp("POST", q, pk, 201, data)

\* RecipeWriteSerializer.update with a fault seeded: author is writable
update_writable_author(instance, data) ==
  LET written == [instance EXCEPT !.tags = TagSet(data.tags),
                                  !.ingredients = add_ingredients(data.ingredients)]
  IN  IF Has(data, "name") /\ Has(data, "cooking_time")
      THEN [written EXCEPT !.cooking_time = data.cooking_time,
                           !.author = IF Has(data, "author") THEN data.author ELSE @]
      ELSE written

\* RecipeWriteSerializer.update: the tags and the rows are replaced first;
\* validated_data['name'], ['text'] and ['cooking_time'] raise KeyError when
\* a PATCH left one of them out, after the tags and rows were written and
\* before the recipe's own fields are saved.
update(instance, data) ==
  LET written == [instance EXCEPT !.tags = TagSet(data.tags),
                                  !.ingredients = add_ingredients(data.ingredients)]
  IN  IF Has(data, "name") /\ Has(data, "cooking_time")
      THEN [written EXCEPT !.cooking_time = data.cooking_time]
      ELSE written

\* RecipeViewSet.update / partial_update (PUT / PATCH /recipes/{pk}/)
recipe_update(q, method, pk, data) ==
  /\ method \in {"PUT", "PATCH"}
  /\ UNCHANGED <<subscriptions, favorites, shopping_list, flight>>
  /\ IF ~IsAuthenticatedOrReadOnly(q, method)
     THEN resp' = WriteResp(method, q, pk, 401, data) /\ UNCHANGED recipes
     ELSE IF ~recipes[pk].exists
     THEN resp' = WriteResp(method, q, pk, 404, data) /\ UNCHANGED recipes
     ELSE IF ~IsRecipeAuthorOrReadOnly(q, method, recipes[pk])
     THEN resp' = WriteResp(method, q, pk, 403, data) /\ UNCHANGED recipes
     ELSE IF ~is_valid(data, method = "PATCH")
     THEN resp' = WriteResp(method, q, pk, 400, data) /\ UNCHANGED recipes
     ELSE /\ recipes' = [recipes EXCEPT ![pk] = update(recipes[pk], data)]
          /\ resp' = WriteResp(method, q, pk,
                       IF Has(data, "name") /\ Has(data, "cooking_time")
                       THEN 200 ELSE 500, data)

\* The Favorites rows (user in users, recipe pk) that requests in flight
\* hold, marked gone when the rows are deleted: instance.delete() deletes by
\* primary key, and deletes nothing then.
MarkGone(bag, users, pk) ==
  LET gone(p) == /\ p.op = "favorite" /\ p.method = "DELETE"
                 /\ p.target = pk /\ p.user \in users
      out(p) == IF gone(p) THEN [p EXCEPT !.live = FALSE] ELSE p
      img == {out(p) : p \in BagToSet(bag)}
  IN  [x \in img |->
         LET pre == {p \in BagToSet(bag) : out(p) = x}
             n[S \in SUBSET pre] ==
               IF S = {} THEN 0
               ELSE LET e == CHOOSE e \in S : TRUE
                    IN  bag[e] + n[S \ {e}]
         IN  n[pre]]

\* RecipeViewSet.destroy: on_delete=CASCADE removes the recipe's Favorites
\* and ShoppingList rows with it.
recipe_destroy(q, pk) ==
  /\ UNCHANGED subscriptions
  /\ IF ~IsAuthenticatedOrReadOnly(q, "DELETE")
     THEN resp' = RecipeResp("DELETE", q, pk, 401)
          /\ UNCHANGED <<recipes, favorites, shopping_list, flight>>
     ELSE IF ~recipes[pk].exists
     THEN resp' = RecipeResp("DELETE", q, pk, 404)
          /\ UNCHANGED <<recipes, favorites, shopping_list, flight>>
     ELSE IF ~IsRecipeAuthorOrReadOnly(q, "DELETE", recipes[pk])
     THEN resp' = RecipeResp("DELETE", q, pk, 403)
          /\ UNCHANGED <<recipes, favorites, shopping_list, flight>>
     ELSE /\ recipes' = [recipes EXCEPT ![pk] = NoRecipe]
          /\ favorites' = {f \in favorites : f[2] # pk}
          /\ shopping_list' = {s \in shopping_list : s.recipe # pk}
          /\ flight' = MarkGone(flight, Users, pk)
          /\ resp' = RecipeResp("DELETE", q, pk, 204)

\* RecipeReadSerializer.get_is_favorited
get_is_favorited(q, pk) ==
  IF IsAuthenticated(q) THEN \E f \in favorites : f[2] = pk /\ f[1] = q ELSE FALSE

\* RecipeReadSerializer.get_is_in_shopping_cart with a fault seeded: the filter leaves out the user
get_is_in_shopping_cart_any_user(q, pk) ==
  IF IsAuthenticated(q) THEN \E s \in shopping_list : s.recipe = pk ELSE FALSE

\* RecipeReadSerializer.get_is_in_shopping_cart
get_is_in_shopping_cart(q, pk) ==
  IF IsAuthenticated(q)
  THEN \E s \in shopping_list : s.recipe = pk /\ s.user = q
  ELSE FALSE

\* RecipeViewSet.retrieve: the read representation (RecipeReadSerializer).
recipe_retrieve(q, pk) ==
  /\ UNCHANGED <<subscriptions, recipes, favorites, shopping_list, flight>>
  /\ IF ~recipes[pk].exists
     THEN resp' = RecipeResp("GET", q, pk, 404)
     ELSE resp' = [op |-> "recipe", method |-> "GET", user |-> q, recipe |-> pk,
                   status |-> 200,
                   author |-> [id |-> recipes[pk].author,
                               is_subscribed |-> get_is_subscribed(recipes[pk].author)],
                   tags |-> recipes[pk].tags,
                   ingredients |-> recipes[pk].ingredients,
                   cooking_time |-> recipes[pk].cooking_time,
                   is_favorited |-> get_is_favorited(q, pk),
                   is_in_shopping_cart |-> get_is_in_shopping_cart(q, pk)]

\* ------------------------------------------------------------ favorites
FavoriteResp(method, q, pk, status) ==
  [op |-> "favorite", method |-> method, user |-> q, recipe |-> pk, status |-> status]

\* Favorites.objects.filter(user=request.user, recipe=recipe).exists()
FavoriteExists(user, pk) == <<user, pk>> \in favorites

\* RecipeViewSet.favorite_recipe, up to its query on Favorites:
\* filter(...).exists() for POST, filter(...).first() for DELETE.
favorite_recipe(q, method, pk) ==
  /\ UNCHANGED <<subscriptions, recipes, favorites, shopping_list>>
  /\ IF ~IsAuthenticated(q)
     THEN resp' = FavoriteResp(method, q, pk, 401) /\ UNCHANGED flight
     ELSE IF ~recipes[pk].exists
     THEN resp' = FavoriteResp(method, q, pk, 404) /\ UNCHANGED flight
     ELSE IF method = "POST" /\ FavoriteExists(q, pk)
     THEN resp' = FavoriteResp(method, q, pk, 400) /\ UNCHANGED flight
     ELSE IF method = "DELETE" /\ ~FavoriteExists(q, pk)
     THEN resp' = FavoriteResp(method, q, pk, 400) /\ UNCHANGED flight
     ELSE /\ CanStart
          /\ flight' = flight (+) SetToBag({
                IF method = "POST" THEN Pending("favorite", method, q, pk)
                ELSE [op |-> "favorite", method |-> method, user |-> q,
                      target |-> pk, live |-> TRUE]})
          /\ resp' = NoResponse

\* Favorites.objects.create(user, recipe): the insert raises IntegrityError,
\* which nothing catches (a 500), when the recipe was deleted meanwhile or
\* when unique_together = ('user', 'recipe') already holds the pair.
FavoritesCreate(user, pk) ==
  IF recipes[pk].exists /\ <<user, pk>> \notin favorites
  THEN [status |-> 201, rows |-> favorites \cup {<<user, pk>>}]
  ELSE [status |-> 500, rows |-> favorites]

\* The second step of favorite_recipe: the create (POST), or
\* favorite_recipe.delete() of the row that first() returned (DELETE).
favorite_write(p) ==
  /\ BagIn(p, flight) /\ p.op = "favorite"
  /\ UNCHANGED <<subscriptions, recipes, shopping_list>>
  /\ IF p.method = "POST"
     THEN /\ favorites' = FavoritesCreate(p.user, p.target).rows
          /\ resp' = FavoriteResp("POST", p.user, p.target,
                                  FavoritesCreate(p.user, p.target).status)
          /\ flight' = flight (-) SetToBag({p})
     ELSE /\ favorites' = IF p.live THEN favorites \ {<<p.user, p.target>>}
                          ELSE favorites
          /\ resp' = FavoriteResp("DELETE", p.user, p.target, 204)
          /\ flight' = MarkGone(flight (-) SetToBag({p}), {p.user}, p.target)

\* ------------------------------------------------------------ shopping list
CartResp(method, q, pk, status) ==
  [op |-> "shopping_cart", method |-> method, user |-> q, recipe |-> pk,
   status |-> status]

\* The ShoppingList rows of one user and recipe.
CartRows(user, pk) == {s \in shopping_list : s.user = user /\ s.recipe = pk}

\* CartExists with a fault seeded: the filter leaves out the user
CartExistsAnyUser(user, pk) == \E s \in shopping_list : s.recipe = pk

\* ShoppingList.objects.filter(user=user, recipe=recipe).exists()
CartExists(user, pk) == \E s \in shopping_list : s.user = user /\ s.recipe = pk

\* filter(user=user, recipe=recipe).first() under Meta.ordering = ['-id']
CartFirst(user, pk) ==
  CHOOSE s \in CartRows(user, pk) : \A o \in CartRows(user, pk) : o.id <= s.id

\* RecipeViewSet.shopping_cart, up to its query on ShoppingList.
shopping_cart(q, method, pk) ==
  /\ UNCHANGED <<subscriptions, recipes, favorites, shopping_list>>
  /\ IF ~IsAuthenticated(q)
     THEN resp' = CartResp(method, q, pk, 401) /\ UNCHANGED flight
     ELSE IF ~recipes[pk].exists
     THEN resp' = CartResp(method, q, pk, 404) /\ UNCHANGED flight
     ELSE IF method = "POST" /\ CartExists(q, pk)
     THEN resp' = CartResp(method, q, pk, 400) /\ UNCHANGED flight
     ELSE IF method = "DELETE" /\ ~CartExists(q, pk)
     THEN resp' = CartResp(method, q, pk, 400) /\ UNCHANGED flight
     ELSE /\ CanStart
          /\ flight' = flight (+) SetToBag({
                IF method = "POST" THEN Pending("shopping_cart", method, q, pk)
                ELSE [op |-> "shopping_cart", method |-> method, user |-> q,
                      target |-> pk, instance |-> CartFirst(q, pk).id]})
          /\ resp' = NoResponse

\* The primary key of a new ShoppingList row: keys only grow, and a key is
\* compared with the keys of stored rows and of rows a request still holds.
HeldRows ==
  {p.instance : p \in {x \in BagToSet(flight) :
                         x.op = "shopping_cart" /\ x.method = "DELETE"}}
NewRowId ==
  LET used == {s.id : s \in shopping_list} \cup HeldRows
  IN  IF used = {} THEN 1
      ELSE 1 + (CHOOSE m \in used : \A o \in used : o <= m)

\* ShoppingList.objects.create(user, recipe): the model declares no
\* uniqueness, so the insert fails only when the recipe is gone.
ShoppingListCreate(user, pk) ==
  IF recipes[pk].exists
  THEN [status |-> 201,
        rows |-> shopping_list \cup {[id |-> NewRowId, user |-> user, recipe |-> pk]}]
  ELSE [status |-> 500, rows |-> shopping_list]

\* The second step of shopping_cart: the create (POST), or
\* instance.delete() of the row that first() returned (DELETE).
shopping_cart_write(p) ==
  /\ BagIn(p, flight) /\ p.op = "shopping_cart"
  /\ flight' = flight (-) SetToBag({p})
  /\ UNCHANGED <<subscriptions, recipes, favorites>>
  /\ IF p.method = "POST"
     THEN /\ recipes[p.target].exists => NewRowId <= MaxRows
          /\ shopping_list' = ShoppingListCreate(p.user, p.target).rows
          /\ resp' = CartResp("POST", p.user, p.target,
                              ShoppingListCreate(p.user, p.target).status)
     ELSE /\ shopping_list' = {s \in shopping_list : s.id # p.instance}
          /\ resp' = CartResp("DELETE", p.user, p.target, 204)

\* The rows of the query of download_shopping_cart before grouping: the
\* user's ShoppingList rows joined (LEFT OUTER) with the RecipeIngredient
\* rows of each row's recipe; a recipe without ingredient rows gives one
\* all-NULL row.
CartJoin(user) ==
  UNION { LET ings == recipes[s.recipe].ingredients
          IN  IF ings = <<>>
              THEN {[row |-> s.id, null |-> TRUE]}
              ELSE {[row |-> s.id, n |-> n,
                     name |-> IngredientName(ings[n].ingredient),
                     unit |-> IngredientUnit(ings[n].ingredient),
                     amount |-> ings[n].amount] : n \in 1..Len(ings)}
        : s \in {x \in shopping_list : x.user = user} }

\* .values(ingredient name, ingredient measurement_unit): the GROUP BY key.
GroupKey(j) == <<j.name, j.unit>>

RECURSIVE SumAmount(_)
\* Sum('recipe__recipe_ingredients__amount') over the joined rows of a group.
SumAmount(J) ==
  IF J = {} THEN 0
  ELSE LET j == CHOOSE x \in J : TRUE
       IN  j.amount + SumAmount(J \ {j})

\* .values(...).annotate(amount=Sum(...)): one line a group; the group of
\* the all-NULL rows has name, unit and amount None.
CartLines(user) ==
  LET rows == {j \in CartJoin(user) : "null" \notin DOMAIN j}
      nulls == {j \in CartJoin(user) : "null" \in DOMAIN j}
      groups == {GroupKey(j) : j \in rows}
  IN  [g \in groups \cup (IF nulls = {} THEN {} ELSE {<<"None", "None">>}) |->
         IF g \in groups
         THEN LET J == {j \in rows : GroupKey(j) = g}
                  any == CHOOSE j \in J : TRUE
              IN  [name |-> any.name, unit |-> any.unit, amount |-> SumAmount(J)]
         ELSE [name |-> "None", unit |-> "None"]]

\* RecipeViewSet.download_shopping_cart
download_shopping_cart(q) ==
  /\ UNCHANGED <<subscriptions, recipes, favorites, shopping_list, flight>>
  /\ IF ~IsAuthenticated(q)
     THEN resp' = [op |-> "download_shopping_cart", user |-> q, status |-> 401]
     ELSE resp' = [op |-> "download_shopping_cart", user |-> q, status |-> 200,
                   header |-> q, lines |-> CartLines(q)]

\* ------------------------------------------------------------ recipe list
\* The query parameters of GET /recipes/: each the sequence of the values
\* the query string gives it, <<>> when it is absent.
ListParams ==
  [author : {<<>>},
   tags : {<<>>, <<2, 1>>},
   is_favorited : {<<>>, <<0>>, <<1>>},
   is_in_shopping_cart : {<<>>, <<0>>, <<1>>}]
  \cup
  [author : {<<"u2">>},
   tags : {<<>>},
   is_favorited : {<<>>},
   is_in_shopping_cart : {<<>>, <<1>>}]

\* RecipeFilter.author (ModelChoiceFilter): the rows of recipe pk it keeps.
RecipeFilter_author(value, pk) ==
  IF value = <<>> \/ recipes[pk].author = value[1] THEN 1 ELSE 0

\* RecipeFilter.tags (AllValuesMultipleFilter on tags__slug): the join to
\* the recipe's tags keeps one row for each tag that is one of the values.
RecipeFilter_tags(value, pk) ==
  IF value = <<>> THEN 1 ELSE Cardinality(recipes[pk].tags \cap TagSet(value))

\* RecipeFilter.get_is_favorited: queryset.filter(favorited_by_users__user=
\* request.user) joins Favorites, one row of the recipe for each match.
RecipeFilter_get_is_favorited(q, value, pk) ==
  IF value # <<>> /\ value[1] # 0 /\ IsAuthenticated(q)
  THEN Cardinality({f \in favorites : f[1] = q /\ f[2] = pk})
  ELSE 1

\* RecipeFilter.get_is_in_shopping_cart: queryset.filter(shopping_list__user=
\* request.user) joins ShoppingList, one row of the recipe for each match.
RecipeFilter_get_is_in_shopping_cart(q, value, pk) ==
  IF value # <<>> /\ value[1] # 0 /\ IsAuthenticated(q)
  THEN Cardinality(CartRows(q, pk))
  ELSE 1

\* RecipeViewSet.list: Recipe.objects.all() through the filters of
\* RecipeFilter in the order they are declared; results[pk] is the number
\* of times recipe pk is in the result.  A multiple-choice filter that
\* filters makes the query DISTINCT; the others do not.  The page holds
\* PAGE_SIZE = 6 entries, more than the tables here can yield.
recipe_list(q, params) ==
  /\ UNCHANGED <<subscriptions, recipes, favorites, shopping_list, flight>>
  /\ LET rows(pk) ==
            RecipeFilter_author(params.author, pk)
              * RecipeFilter_tags(params.tags, pk)
              * RecipeFilter_get_is_favorited(q, params.is_favorited, pk)
              * RecipeFilter_get_is_in_shopping_cart(q, params.is_in_shopping_cart, pk)
          distinct == params.tags # <<>>
      IN  resp' = [op |-> "recipes", method |-> "GET", user |-> q,
                   params |-> params, status |-> 200,
                   results |-> [pk \in RecipeIds |->
                                  IF ~recipes[pk].exists THEN 0
                                  ELSE IF distinct /\ rows(pk) > 1 THEN 1
                                  ELSE rows(pk)]]

\* ------------------------------------------------------------ specifications
InitEmpty ==
  /\ subscriptions = {}
  /\ recipes = [r \in RecipeIds |-> NoRecipe]
  /\ favorites = {}
  /\ shopping_list = {}
  /\ flight = EmptyBag
  /\ resp = NoResponse

\* The recipe a valid create of `data` by `author` stores.
Stored(author, data) ==
  [exists |-> TRUE, author |-> author, tags |-> TagSet(data.tags),
   ingredients |-> add_ingredients(data.ingredients),
   cooking_time |-> data.cooking_time]

\* The state after u1 created a recipe from BodyA and u2 one from BodyB.
InitCatalog ==
  /\ subscriptions = {}
  /\ recipes = [r \in RecipeIds |->
                  IF r = 1 THEN Stored("u1", BodyA) ELSE Stored("u2", BodyB)]
  /\ favorites = {}
  /\ shopping_list = {}
  /\ flight = EmptyBag
  /\ resp = NoResponse

\* Subscriptions: subscribe and the subscriptions list.
NextUsers ==
  \/ \E q \in Requesters, m \in {"POST", "DELETE"}, a \in Users : subscribe(q, m, a)
  \/ \E p \in BagToSet(flight) : subscribe_write(p)
  \/ \E q \in Users : subscriptions_list(q)

SpecUsers == InitEmpty /\ [][NextUsers]_vars

\* Recipes: create, update, destroy, retrieve.
NextRecipes ==
  \/ \E q \in Requesters, data \in Bodies : recipe_create(q, data)
  \/ \E q \in Requesters, m \in {"PUT", "PATCH"}, pk \in RecipeIds, data \in Bodies :
       recipe_update(q, m, pk, data)
  \/ \E q \in Requesters, pk \in RecipeIds : recipe_destroy(q, pk)
  \/ \E q \in Requesters, pk \in RecipeIds : recipe_retrieve(q, pk)

SpecRecipes == InitEmpty /\ [][NextRecipes]_vars

\* Favorites over the two recipes of InitCatalog.
NextFavorites ==
  \/ \E q \in Requesters, m \in {"POST", "DELETE"}, pk \in RecipeIds :
       favorite_recipe(q, m, pk)
  \/ \E p \in BagToSet(flight) : favorite_write(p)
  \/ \E q \in Requesters, pk \in RecipeIds : recipe_destroy(q, pk)
  \/ \E q \in Requesters, pk \in RecipeIds : recipe_retrieve(q, pk)

SpecFavorites == InitCatalog /\ [][NextFavorites]_vars

\* Shopping lists over the two recipes of InitCatalog.
NextCart ==
  \/ \E q \in Requesters, m \in {"POST", "DELETE"}, pk \in RecipeIds :
       shopping_cart(q, m, pk)
  \/ \E p \in BagToSet(flight) : shopping_cart_write(p)
  \/ \E q \in Requesters : download_shopping_cart(q)
  \/ \E q \in Requesters, pk \in RecipeIds : recipe_destroy(q, pk)

SpecCart == InitCatalog /\ [][NextCart]_vars

\* A stored state the handlers above reach: any subscriptions between
\* different users, none, one or both recipes of InitCatalog, any favorites
\* of the stored recipes, and an empty shopping list or one row of a stored
\* recipe; no request in flight.
InitStored ==
  /\ subscriptions \in SUBSET {s \in Users \X Users : s[1] # s[2]}
  /\ recipes \in {[r \in RecipeIds |-> NoRecipe],
                  [r \in RecipeIds |-> IF r = 1 THEN Stored("u1", BodyA) ELSE NoRecipe],
                  [r \in RecipeIds |->
                     IF r = 1 THEN Stored("u1", BodyA) ELSE Stored("u2", BodyB)]}
  /\ favorites \in SUBSET {f \in Users \X RecipeIds : recipes[f[2]].exists}
  /\ shopping_list \in
       {{}} \cup {{[id |-> 1, user |-> u, recipe |-> pk]} :
                    u \in Users, pk \in {x \in RecipeIds : recipes[x].exists}}
  /\ flight = EmptyBag
  /\ resp = NoResponse

\* The requests of a client that sent no credentials, to every endpoint.
NextAnon ==
  \/ \E m \in {"POST", "DELETE"}, a \in Users : subscribe(Anon, m, a)
  \/ \E data \in Bodies : recipe_create(Anon, data)
  \/ \E m \in {"PUT", "PATCH"}, pk \in RecipeIds, data \in Bodies :
       recipe_update(Anon, m, pk, data)
  \/ \E pk \in RecipeIds : recipe_destroy(Anon, pk)
  \/ \E pk \in RecipeIds : recipe_retrieve(Anon, pk)
  \/ \E m \in {"POST", "DELETE"}, pk \in RecipeIds : favorite_recipe(Anon, m, pk)
  \/ \E m \in {"POST", "DELETE"}, pk \in RecipeIds : shopping_cart(Anon, m, pk)
  \/ download_shopping_cart(Anon)

SpecAnon == InitStored /\ [][NextAnon]_vars

\* The state after u1 and u2 created the recipes of InitCatalog and each
\* did or did not favorite a recipe: u1 recipe 1, u2 recipe 2.
InitFavored ==
  /\ subscriptions = {}
  /\ recipes = [r \in RecipeIds |->
                  IF r = 1 THEN Stored("u1", BodyA) ELSE Stored("u2", BodyB)]
  /\ favorites \in SUBSET {<<"u1", 1>>, <<"u2", 2>>}
  /\ shopping_list = {}
  /\ flight = EmptyBag
  /\ resp = NoResponse

\* Retrieving recipes while shopping lists change.
NextBrowse ==
  \/ \E q \in Requesters, m \in {"POST", "DELETE"}, pk \in RecipeIds :
       shopping_cart(q, m, pk)
  \/ \E p \in BagToSet(flight) : shopping_cart_write(p)
  \/ \E q \in Requesters, pk \in RecipeIds : recipe_retrieve(q, pk)

SpecBrowse == InitFavored /\ [][NextBrowse]_vars

\* Listing recipes while shopping lists change.
NextListing ==
  \/ \E q \in Requesters, m \in {"POST", "DELETE"}, pk \in RecipeIds :
       shopping_cart(q, m, pk)
  \/ \E p \in BagToSet(flight) : shopping_cart_write(p)
  \/ \E q \in Requesters, params \in ListParams : recipe_list(q, params)

SpecListing == InitFavored /\ [][NextListing]_vars

\* Every handler of the API.
Next ==
  \/ NextUsers
  \/ NextRecipes
  \/ NextFavorites
  \/ NextCart
  \/ NextBrowse
  \/ NextListing

Spec == InitEmpty /\ [][Next]_vars

\* ------------------------------------------------------------ claims
\* The recipes in u's shopping list, and the ingredient rows of those
\* recipes, each recipe taken once.
ListedRecipes(u) == {s.recipe : s \in {x \in shopping_list : x.user = u}}
ListedIngredients(u) ==
  UNION { {[recipe |-> r, n |-> n,
            name |-> IngredientName(recipes[r].ingredients[n].ingredient),
            unit |-> IngredientUnit(recipes[r].ingredients[n].ingredient),
            amount |-> recipes[r].ingredients[n].amount]
           : n \in 1..Len(recipes[r].ingredients)}
        : r \in ListedRecipes(u) }

\* C1: the download of user u holds exactly one line for each distinct
\* (ingredient name, measurement unit) pair of the recipes in u's shopping
\* list, and no other line; the amount of a line is the sum of that pair's
\* amounts over those recipes, each recipe counted once.
C1_DownloadSumsEachRecipeOnce ==
  (resp.op = "download_shopping_cart" /\ resp.status = 200) =>
    LET occ == ListedIngredients(resp.user)
        pairs == {<<o.name, o.unit>> : o \in occ}
        lines == resp.lines
    IN  /\ \A pr \in pairs :
             Cardinality({g \in DOMAIN lines :
                            lines[g].name = pr[1] /\ lines[g].unit = pr[2]}) = 1
        /\ \A g \in DOMAIN lines :
             /\ <<lines[g].name, lines[g].unit>> \in pairs
             /\ lines[g].amount =
                  SumAmount({o \in occ : o.name = lines[g].name /\ o.unit = lines[g].unit})

\* A request that this step put in flight: its handler ran its query and
\* went on to its write.
Starts(p) == CopiesIn(p, flight') > CopiesIn(p, flight)

\* C2: for an authenticated user u and an existing recipe r, a POST
\* favorite that finds (u, r) among the favorites is answered 400 and
\* changes nothing, and any other POST is answered 201 and adds exactly
\* (u, r); a DELETE that finds no (u, r) is answered 400 and changes nothing,
\* and any other DELETE is answered 204 and removes exactly (u, r).
C2_FavoriteToggle ==
  [][ LET r == resp'
      IN  /\ (r.op = "favorite" /\ r.user \in Users /\ recipes[r.recipe].exists) =>
               LET pair == <<r.user, r.recipe>>
               IN  /\ r.method = "POST" =>
                        /\ r.status \in {201, 400}
                        /\ r.status = 400 => pair \in favorites /\ favorites' = favorites
                        /\ r.status = 201 =>
                             pair \notin favorites /\ favorites' = favorites \cup {pair}
                   /\ r.method = "DELETE" =>
                        /\ r.status \in {204, 400}
                        /\ r.status = 400 => pair \notin favorites /\ favorites' = favorites
                        /\ r.status = 204 => favorites' = favorites \ {pair}
          /\ \A p \in BagToSet(flight') :
               (p.op = "favorite" /\ Starts(p)) =>
                 /\ favorites' = favorites
                 /\ p.method = "POST" => <<p.user, p.target>> \notin favorites
                 /\ p.method = "DELETE" => <<p.user, p.target>> \in favorites ]_vars

C5_NoSelfSubscription ==
  /\ \A s \in subscriptions : s[1] # s[2]
  /\ (resp.op = "subscribe" /\ resp.method = "POST" /\ resp.user \in Users
        /\ resp.target = resp.user) => resp.status = 400

\* u1 was refused a subscription to itself while following u2.
C5_Witness ==
  /\ resp.op = "subscribe" /\ resp.method = "POST" /\ resp.status = 400
  /\ resp.user = "u1" /\ resp.target = "u1"
  /\ <<"u1", "u2">> \in subscriptions

\* C6: a step changes the Subscription relation only by answering a
\* subscribe of some user u on some author a with 201, which adds (u, a), or
\* with 204, which removes (u, a); every other pair, (a, u) and the pairs of
\* other subscribers among them, is in the relation after the step exactly
\* when it was before.
C6_SubscriptionDirected ==
  [][ LET r == resp'
      IN  /\ subscriptions' # subscriptions =>
               r.op = "subscribe" /\ r.status \in {201, 204} /\ r.user \in Users
          /\ (r.op = "subscribe" /\ r.status \in {201, 204}) =>
               /\ \A s \in (subscriptions \cup subscriptions') \ {<<r.user, r.target>>} :
                    s \in subscriptions <=> s \in subscriptions'
               /\ r.status = 201 => <<r.user, r.target>> \in subscriptions'
               /\ r.status = 204 => <<r.user, r.target>> \notin subscriptions' ]_vars

\* u1 unsubscribed from u2 and u2 still follows u1.
C6_Witness ==
  /\ resp.op = "subscribe" /\ resp.method = "DELETE" /\ resp.status = 204
  /\ resp.user = "u1" /\ resp.target = "u2"
  /\ <<"u2", "u1">> \in subscriptions

\* C7: a step changes or deletes a stored recipe only in answer to a
\* request of the recipe's author for that recipe; a PUT, PATCH or DELETE
\* of an existing recipe by another authenticated user is answered 403 and
\* leaves every recipe, its tags and its ingredient rows as they were; a
\* GET of an existing recipe is answered 200 with the recipe, whoever asks.
C7_OnlyAuthorWrites ==
  [][ LET r == resp'
      IN  /\ \A pk \in RecipeIds :
               (recipes[pk].exists /\ recipes'[pk] # recipes[pk]) =>
                 /\ r.op = "recipe" /\ r.method \in {"PUT", "PATCH", "DELETE"}
                 /\ r.recipe = pk /\ r.user = recipes[pk].author
          /\ (/\ r.op = "recipe" /\ r.method \in {"PUT", "PATCH", "DELETE"}
              /\ r.user \in Users /\ recipes[r.recipe].exists
              /\ r.user # recipes[r.recipe].author) =>
               r.status = 403 /\ recipes' = recipes
          /\ (r.op = "recipe" /\ r.method = "GET" /\ recipes[r.recipe].exists) =>
               /\ r.status = 200 /\ recipes' = recipes
               /\ r.tags = recipes[r.recipe].tags
               /\ r.ingredients = recipes[r.recipe].ingredients ]_vars

\* u2 sent a valid PATCH for recipe 1 of u1 and got 403.
C7_Witness ==
  /\ resp.op = "recipe" /\ resp.method = "PATCH" /\ resp.status = 403
  /\ resp.user = "u2" /\ resp.recipe = 1 /\ resp.data = BodyB
  /\ recipes[1].exists /\ recipes[1].author = "u1"

\* C8: a request of an unauthenticated client changes no stored recipe,
\* favorite, shopping list row or subscription and leaves no request in
\* flight; recipe create, update and delete, favorite, shopping_cart and
\* subscribe (POST and DELETE) and download_shopping_cart are answered 401.
C8_AnonymousChangesNothing ==
  [][ LET r == resp'
      IN  (r.op # "none" /\ r.user = Anon) =>
            /\ UNCHANGED <<subscriptions, recipes, favorites, shopping_list, flight>>
            /\ (r.op = "recipe" => r.method # "GET") => r.status = 401 ]_vars

\* An anonymous DELETE of a stored, favorited recipe was answered 401.
C8_Witness ==
  /\ resp.op = "recipe" /\ resp.method = "DELETE" /\ resp.user = Anon
  /\ resp.status = 401 /\ recipes[resp.recipe].exists
  /\ \E f \in favorites : f[2] = resp.recipe

\* The bodies the claim says are rejected: no or a repeated tag, no or a
\* repeated ingredient, an amount missing or outside 1..32000, a
\* cooking_time outside 1..32000.
Repeats(seq) == \E m, n \in 1..Len(seq) : m # n /\ seq[m] = seq[n]
RejectedBody(data) ==
  \/ ~Has(data, "tags") \/ data.tags = <<>> \/ Repeats(data.tags)
  \/ ~Has(data, "ingredients") \/ data.ingredients = <<>>
  \/ Repeats([n \in 1..Len(data.ingredients) |-> data.ingredients[n].id])
  \/ \E n \in 1..Len(data.ingredients) :
       \/ ~Has(data.ingredients[n], "amount")
       \/ data.ingredients[n].amount < 1 \/ data.ingredients[n].amount > 32000
  \/ Has(data, "cooking_time") /\ (data.cooking_time < 1 \/ data.cooking_time > 32000)

ValidRecipe(recipe) ==
  /\ recipe.tags # {}
  /\ Len(recipe.ingredients) >= 1
  /\ \A m, n \in 1..Len(recipe.ingredients) :
       m # n => recipe.ingredients[m].ingredient # recipe.ingredients[n].ingredient
  /\ \A n \in 1..Len(recipe.ingredients) :
       1 <= recipe.ingredients[n].amount /\ recipe.ingredients[n].amount <= 32000
  /\ 1 <= recipe.cooking_time /\ recipe.cooking_time <= 32000

C10_IsSubscribedOfRequester ==
  /\ resp.op = "subscriptions" =>
       \A x \in resp.results :
         x.is_subscribed <=> <<resp.user, x.id>> \in subscriptions
  /\ (resp.op = "subscribe" /\ resp.status = 201) =>
       (resp.is_subscribed <=> <<resp.user, resp.target>> \in subscriptions)

\* C11: in the read representation of recipe r for requester u,
\* is_favorited is true exactly when the Favorites row (u, r) exists and
\* is_in_shopping_cart exactly when a ShoppingList row (u, r) exists, so
\* whatever rows other users hold; both are false for the anonymous
\* requester.
C11_ReadFlagsOfRequester ==
  (resp.op = "recipe" /\ resp.method = "GET" /\ resp.status = 200) =>
    /\ resp.is_favorited <=>
         (resp.user \in Users /\ <<resp.user, resp.recipe>> \in favorites)
    /\ resp.is_in_shopping_cart <=>
         (resp.user \in Users /\
            \E s \in shopping_list : s.user = resp.user /\ s.recipe = resp.recipe)
    /\ resp.user = Anon => ~resp.is_favorited /\ ~resp.is_in_shopping_cart

\* u1 read recipe 2, which only u2 has favorited and only u2 has in a
\* shopping list: both flags are false.
C11_Witness ==
  /\ resp.op = "recipe" /\ resp.method = "GET" /\ resp.status = 200
  /\ resp.user = "u1" /\ resp.recipe = 2
  /\ ~resp.is_favorited /\ ~resp.is_in_shopping_cart
  /\ <<"u2", 2>> \in favorites /\ <<"u1", 2>> \notin favorites
  /\ \E s \in shopping_list : s.user = "u2" /\ s.recipe = 2

\* C12: the recipe list holds each stored recipe that passes the filters
\* exactly once and no other recipe: for an authenticated user,
\* is_favorited=1 passes the recipes the user has favorited and
\* is_in_shopping_cart=1 those in the user's shopping list; a value of 0, an
\* absent parameter or an anonymous requester passes every recipe.
C12_ListFilters ==
  resp.op = "recipes" =>
    LET u == resp.user
        P == resp.params
        On(value) == value # <<>> /\ value[1] # 0 /\ u \in Users
        Passes(pk) ==
          /\ recipes[pk].exists
          /\ P.author # <<>> => recipes[pk].author = P.author[1]
          /\ P.tags # <<>> => \E n \in 1..Len(P.tags) : P.tags[n] \in recipes[pk].tags
          /\ On(P.is_favorited) => <<u, pk>> \in favorites
          /\ On(P.is_in_shopping_cart) =>
               \E s \in shopping_list : s.user = u /\ s.recipe = pk
    IN  \A pk \in RecipeIds : resp.results[pk] = IF Passes(pk) THEN 1 ELSE 0

\* C13: a create answered 201 stores a new recipe whose author is the
\* requesting user, whatever author the body names; and no step changes the
\* author of a recipe that is stored before and after it, so no update does.
C13_AuthorBoundOnCreate ==
  [][ LET r == resp'
      IN  /\ (r.op = "recipe" /\ r.method = "POST" /\ r.status = 201) =>
               /\ ~recipes[r.recipe].exists
               /\ recipes'[r.recipe].exists
               /\ recipes'[r.recipe].author = r.user
          /\ \A pk \in RecipeIds :
               (recipes[pk].exists /\ recipes'[pk].exists) =>
                 recipes'[pk].author = recipes[pk].author ]_vars

\* u2's PUT whose body names u1 as author was answered 200 and stored, and
\* the recipe is still u2's.
C13_Witness ==
  /\ resp.op = "recipe" /\ resp.method = "PUT" /\ resp.status = 200
  /\ resp.user = "u2" /\ Has(resp.data, "author") /\ resp.data.author = "u1"
  /\ recipes[resp.recipe].exists /\ recipes[resp.recipe].author = "u2"
  /\ recipes[resp.recipe].cooking_time = resp.data.cooking_time

====
